---------------------------- MODULE Spec2Model ----------------------------
(***************************************************************************)
(* A model of the two tape realizations of turing_rs and of the machine    *)
(* that steps over them:                                                   *)
(*   - src/src/turing.rs: Tape, a HashMap<i64, T> addressed by an integer  *)
(*     head, and execute();                                                *)
(*   - src/src/main.rs: the doubly linked chain of Cell's walked by a      *)
(*     Cursor, IdleVirtualMachine::apply() and the driver simple_program().*)
(* Option<T> is the tuple <<>> (None) or <<x>> (Some(x)).  An              *)
(* Rc<RefCell<Cell>> is the index of the cell in the sequence `arena`      *)
(* (cells are never freed: the chain's links form Rc cycles), so two       *)
(* links denote the same physical cell exactly when the indices are equal. *)
(***************************************************************************)
EXTENDS Integers, Sequences, FiniteSets, TLC

\* ------------------------------------------------------------- bounds
\* Cells a chain may materialize under the tape and cursor operations.
MaxCells == 2
\* Cursor handles (and integer heads) alive under the tape and cursor operations.
MaxCursors == 2
\* Cells a chain may materialize under the steps of the machine.
MaxStepCells == 3
\* Iterations of the driver loop explored before the run is cut off.
MaxSteps == 4
\* Cells a chain may materialize under the walk of a single cursor.
MaxWalkCells == 4
\* Positions on either side of the origin written before a tape is iterated.
MaxIterSpan == 1
\* Items drawn from an iterator.
MaxIter == 3
\* Steps taken from a head placed by an end of the integer range.
MaxEdgeSteps == 2

\* ------------------------------------------------------------- values
Symbols == {"a", "b"}
States == {"a", "b"}

None == <<>>
Some(x) == <<x>>
OptSymbols == {None} \cup {Some(s) : s \in Symbols}

Movements == {"Left", "Right", "Stay"}

Halt == [tag |-> "Halt"]
State(s) == [tag |-> "State", state |-> s]
Transitions == {Halt} \cup {State(s) : s \in States}

Action(set, movement, transition) ==
  [set |-> set, movement |-> movement, transition |-> transition]
Actions ==
  {Action(v, m, t) : v \in OptSymbols, m \in Movements, t \in Transitions}

Idle(s) == [tag |-> "Idle", state |-> s]
Done == [tag |-> "Done"]

VirtualMachineNew(state) == Idle(state)

\* ------------------------------------------------- turing.rs: the map tape
TapeNew == [p \in {} |-> "a"]

TapeValue(cells, head) ==
  IF head \in DOMAIN cells THEN Some(cells[head]) ELSE None

\* a set(head, None) that forgets to remove the entry
TapeRemoveKeeps(cells, head) ==
  [cells |-> cells,
   ret |-> IF head \in DOMAIN cells THEN Some(cells[head]) ELSE None]

\* a set(head, None) that stores a blank mark under the key
TapeRemoveTombstone(cells, head) ==
  [cells |-> [p \in (DOMAIN cells) \cup {head} |->
                 IF p = head THEN "_" ELSE cells[p]],
   ret |-> IF head \in DOMAIN cells THEN Some(cells[head]) ELSE None]

TapeRemove(cells, head) ==
  [cells |-> [p \in (DOMAIN cells) \ {head} |-> cells[p]],
   ret |-> IF head \in DOMAIN cells THEN Some(cells[head]) ELSE None]

\* a set(head, Some(v)) that hands back the value it stored
TapeInsertReturnsNew(cells, head, v) ==
  [cells |-> [p \in (DOMAIN cells) \cup {head} |->
                 IF p = head THEN v ELSE cells[p]],
   ret |-> Some(v)]

TapeInsert(cells, head, v) ==
  [cells |-> [p \in (DOMAIN cells) \cup {head} |->
                 IF p = head THEN v ELSE cells[p]],
   ret |-> IF head \in DOMAIN cells THEN Some(cells[head]) ELSE None]

TapeSet(cells, head, value) ==
  IF value = None THEN TapeRemove(cells, head)
  ELSE TapeInsert(cells, head, value[1])

\* a new_head that takes Left for the higher position and Right for the lower
NewHeadMirrored(movement, head) ==
  CASE movement = "Left" -> head + 1
    [] movement = "Right" -> head - 1
    [] movement = "Stay" -> head

NewHead(movement, head) ==
  CASE movement = "Left" -> head - 1
    [] movement = "Right" -> head + 1
    [] movement = "Stay" -> head

VmState(transition) ==
  IF transition = Halt THEN Done ELSE Idle(transition.state)

\* an execute that returns the machine it was given instead of vm_state
ExecuteKeepsVm(vm, action, cells, head) ==
  IF vm = Done
  THEN [vm |-> Done, head |-> head, cells |-> cells]
  ELSE [vm |-> vm,
        head |-> NewHead(action.movement, head),
        cells |-> TapeSet(cells, head, action.set).cells]

\* an execute without the Done arm
ExecuteNoDoneArm(vm, action, cells, head) ==
  [vm |-> VmState(action.transition),
   head |-> NewHead(action.movement, head),
   cells |-> TapeSet(cells, head, action.set).cells]

\* execute(vm, action, tape, head) -> (vm, head), the tape mutated in place
Execute(vm, action, cells, head) ==
  IF vm = Done
  THEN [vm |-> Done, head |-> head, cells |-> cells]
  ELSE [vm |-> VmState(action.transition),
        head |-> NewHead(action.movement, head),
        cells |-> TapeSet(cells, head, action.set).cells]

\* `head: i64`: a two's complement integer, here HeadBits wide instead of 64
HeadBits == 3
HeadMin == 0 - 2 ^ (HeadBits - 1)
HeadMax == 2 ^ (HeadBits - 1) - 1

\* the two's complement value an out-of-range result wraps to
Wrap(x) == ((x - HeadMin) % 2 ^ HeadBits) + HeadMin

\* how `head - 1` and `head + 1` are compiled: with overflow checks, which
\* panic (the default of a debug build), or without, which wrap (a release
\* build)
Builds == {"checked", "wrapping"}

\* execute() with the head an integer of that width: tape.set has run when
\* the arithmetic of new_head overflows
ExecuteI64(build, vm, action, cells, head) ==
  LET e == Execute(vm, action, cells, head)
  IN  IF e.head \in HeadMin..HeadMax
      THEN [fault |-> FALSE, vm |-> e.vm, head |-> e.head, cells |-> e.cells]
      ELSE IF build = "checked"
      THEN [fault |-> TRUE, vm |-> vm, head |-> head, cells |-> e.cells]
      ELSE [fault |-> FALSE, vm |-> e.vm, head |-> Wrap(e.head),
            cells |-> e.cells]

\* ------------------------------------------------- main.rs: the cell chain
NoLink == 0

Cell(value, left, right) == [value |-> value, left |-> left, right |-> right]

\* Rc::new(RefCell::new(Cell {..})): a fresh cell, its link the next index
CellLinkNew(arena, value, left, right) ==
  [arena |-> Append(arena, Cell(value, left, right)), link |-> Len(arena) + 1]

CellSingle(arena, value) == CellLinkNew(arena, value, NoLink, NoLink)

LeftLink(arena, value, right) ==
  LET n == CellLinkNew(arena, value, NoLink, right)
  IN  [arena |-> [n.arena EXCEPT ![right].left = n.link], link |-> n.link]

\* a right_link that does not hand the new cell its left neighbour
RightLinkOneWay(arena, value, left) ==
  LET n == CellLinkNew(arena, value, NoLink, NoLink)
  IN  [arena |-> [n.arena EXCEPT ![left].right = n.link], link |-> n.link]

RightLink(arena, value, left) ==
  LET n == CellLinkNew(arena, value, left, NoLink)
  IN  [arena |-> [n.arena EXCEPT ![left].right = n.link], link |-> n.link]

OnNewEmptyTape ==
  LET n == CellSingle(<<>>, None)
  IN  [arena |-> n.arena, current |-> n.link]

CursorLookup(arena, current) == arena[current].value

CursorSet(arena, current, value) == [arena EXCEPT ![current].value = value]

\* a clone that copies the cell instead of sharing it
CursorCloneCopy(arena, current) ==
  [arena |-> Append(arena, arena[current]), current |-> Len(arena) + 1]

\* #[derive(Clone)]: Rc::clone of `current`, a second link to the same cell
CursorClone(arena, current) == [arena |-> arena, current |-> current]

\* a move_right whose new cell starts with the value of the cell left behind
CursorMoveRightCopy(arena, current) ==
  LET right_cell == IF arena[current].right = NoLink
                    THEN RightLink(arena, arena[current].value, current)
                    ELSE [arena |-> arena, link |-> arena[current].right]
  IN  [arena |-> right_cell.arena,
       current |-> right_cell.link,
       ret |-> CursorLookup(right_cell.arena, current)]

\* a move_right that also materializes the cell beyond the one it arrives on
CursorMoveRightEager(arena, current) ==
  LET right_cell == IF arena[current].right = NoLink
                    THEN RightLink(arena, None, current)
                    ELSE [arena |-> arena, link |-> arena[current].right]
      beyond == IF right_cell.arena[right_cell.link].right = NoLink
                THEN RightLink(right_cell.arena, None, right_cell.link)
                ELSE [arena |-> right_cell.arena, link |-> NoLink]
  IN  [arena |-> beyond.arena,
       current |-> right_cell.link,
       ret |-> CursorLookup(beyond.arena, current)]

CursorMoveRight(arena, current) ==
  LET right_cell == IF arena[current].right = NoLink
                    THEN RightLink(arena, None, current)
                    ELSE [arena |-> arena, link |-> arena[current].right]
  IN  [arena |-> right_cell.arena,
       current |-> right_cell.link,
       ret |-> CursorLookup(right_cell.arena, current)]

\* a move_left that links a new cell without asking whether one is there
CursorMoveLeftFresh(arena, current) ==
  LET left_cell == LeftLink(arena, None, current)
  IN  [arena |-> left_cell.arena,
       current |-> left_cell.link,
       ret |-> CursorLookup(left_cell.arena, current)]

CursorMoveLeft(arena, current) ==
  LET left_cell == IF arena[current].left = NoLink
                   THEN LeftLink(arena, None, current)
                   ELSE [arena |-> arena, link |-> arena[current].left]
  IN  [arena |-> left_cell.arena,
       current |-> left_cell.link,
       ret |-> CursorLookup(left_cell.arena, current)]

\* an apply that moves the cursor before it writes
ApplyMoveFirst(arena, current, action) ==
  LET moved == CASE action.movement = "Left" -> CursorMoveLeft(arena, current)
                 [] action.movement = "Right" -> CursorMoveRight(arena, current)
                 [] OTHER -> [arena |-> arena, current |-> current]
  IN  [arena |-> CursorSet(moved.arena, moved.current, action.set),
       current |-> moved.current,
       machine |-> IF action.transition = Halt
                   THEN Done
                   ELSE Idle(action.transition.state)]

\* an apply that writes the cell it arrives on as well
ApplyWritesBoth(arena, current, action) ==
  LET written == CursorSet(arena, current, action.set)
      moved == CASE action.movement = "Left" -> CursorMoveLeft(written, current)
                 [] action.movement = "Right" -> CursorMoveRight(written, current)
                 [] OTHER -> [arena |-> written, current |-> current]
  IN  [arena |-> CursorSet(moved.arena, moved.current, action.set),
       current |-> moved.current,
       machine |-> IF action.transition = Halt
                   THEN Done
                   ELSE Idle(action.transition.state)]

\* IdleVirtualMachine::apply(&self, cursor, action) -> VirtualMachine
Apply(arena, current, action) ==
  LET written == CursorSet(arena, current, action.set)
      moved == CASE action.movement = "Left" -> CursorMoveLeft(written, current)
                 [] action.movement = "Right" -> CursorMoveRight(written, current)
                 [] OTHER -> [arena |-> written, current |-> current]
  IN  [arena |-> moved.arena,
       current |-> moved.current,
       machine |-> IF action.transition = Halt
                   THEN Done
                   ELSE Idle(action.transition.state)]

\* next(): `ret = tape.value(head); head += 1`, the map-side move to the right
TapeIterNext(cells, head) == [ret |-> TapeValue(cells, head), head |-> head + 1]

\* next_back(): `ret = tape.value(head); head -= 1`, the map-side move to the left
TapeIterNextBack(cells, head) ==
  [ret |-> TapeValue(cells, head), head |-> head - 1]

\* --------------------------------------------- positions along the chain
\* the cell d links to the right (d > 0) or to the left (d < 0) of `from`,
\* NoLink where the chain does not reach that far
RECURSIVE CellAt(_, _, _)
CellAt(arena, from, d) ==
  IF from = NoLink \/ d = 0 THEN from
  ELSE IF d > 0 THEN CellAt(arena, arena[from].right, d - 1)
  ELSE CellAt(arena, arena[from].left, d + 1)

\* the value at displacement d from `from`, blank where no cell exists yet
ValueAt(arena, from, d) ==
  IF CellAt(arena, from, d) = NoLink THEN None
  ELSE CursorLookup(arena, CellAt(arena, from, d))

\* the displacement of cell k from the first cell of the tape
Displacement(arena, k) ==
  CHOOSE d \in (0 - Len(arena))..Len(arena) : CellAt(arena, 1, d) = k

\* ------------------------------------------ main.rs: iterating a cursor
\* Iterator::next: `ret = Some(self.clone()); self.move_right(); ret`
CursorNext(arena, current) ==
  LET m == CursorMoveRight(arena, current)
  IN  [item |-> CursorClone(arena, current).current,
       arena |-> m.arena, current |-> m.current]

\* DoubleEndedIterator::next_back: the same with move_left
CursorNextBack(arena, current) ==
  LET m == CursorMoveLeft(arena, current)
  IN  [item |-> CursorClone(arena, current).current,
       arena |-> m.arena, current |-> m.current]

\* the closure of print_jointed: "_" for None, a.to_string() for Some(a)
Glyph(value) == IF value = None THEN "_" ELSE value[1]

\* the iterator after i calls of next_back, with the item of the last call
BackWalk(arena, current, n) ==
  LET w[i \in 0..n] ==
        IF i = 0 THEN [item |-> NoLink, arena |-> arena, current |-> current]
        ELSE LET p == w[i - 1] IN CursorNextBack(p.arena, p.current)
  IN  w[n]

\* the iterator after i calls of next, for every i up to n
Walk(arena, current, n) ==
  [i \in 0..n |->
     LET w[j \in 0..n] ==
           IF j = 0 THEN [item |-> NoLink, arena |-> arena, current |-> current]
           ELSE LET p == w[j - 1] IN CursorNext(p.arena, p.current)
     IN  w[i]]

\* a window drained from the head to the right, without the walk back
WindowFromHead(arena, current) ==
  LET strip == Walk(arena, CursorClone(arena, current).current, 5)
  IN  [arena |-> strip[5].arena,
       shown |-> [i \in 1..5 |->
                    Glyph(CursorLookup(strip[5].arena, strip[i].item))]]

\* print_jointed(cursor.clone().rev().nth(2).unwrap().take(5)): nth(2) of the
\* reversed walk is the item of its third next_back, and take(5) is drained by
\* five calls of next; the glyphs handed to join(" "), and the chain with the
\* cells the two walks materialized
Window(arena, current) ==
  LET start == BackWalk(arena, CursorClone(arena, current).current, 2 + 1)
      strip == Walk(start.arena, start.item, 5)
  IN  [arena |-> strip[5].arena,
       shown |-> [i \in 1..5 |->
                    Glyph(CursorLookup(strip[5].arena, strip[i].item))]]

\* ------------------------------------------------ main.rs: the program
Observed(symbol, state) == [symbol |-> symbol, state |-> state]

ProgramNew == [k \in {} |-> Action(None, "Stay", Halt)]

ProgramInsert(prog, key, action) ==
  [k \in (DOMAIN prog) \cup {key} |-> IF k = key THEN action ELSE prog[k]]

ProgramGet(prog, key) ==
  IF key \in DOMAIN prog THEN Some(prog[key]) ELSE None

\* build_simple_program with Move::Stay in its first entry
SimpleProgramStay ==
  ProgramInsert(
    ProgramInsert(
      ProgramInsert(ProgramNew,
        Observed(Some("a"), "a"), Action(Some("b"), "Stay", State("b"))),
      Observed(Some("b"), "b"), Action(None, "Right", State("b"))),
    Observed(None, "b"), Action(Some("a"), "Stay", Halt))

\* build_simple_program()
SimpleProgram ==
  ProgramInsert(
    ProgramInsert(
      ProgramInsert(ProgramNew,
        Observed(Some("a"), "a"), Action(Some("b"), "Left", State("b"))),
      Observed(Some("b"), "b"), Action(None, "Right", State("b"))),
    Observed(None, "b"), Action(Some("a"), "Stay", Halt))

\* a turn of the loop that takes a missing entry for Halt
TurnHaltsOnMiss(prog, arena, current, idle) ==
  LET key == Observed(CursorLookup(arena, current), idle.state)
      instruction == ProgramGet(prog, key)
  IN  IF instruction = None
      THEN [pc |-> "done", observed |-> key, instruction |-> instruction,
            arena |-> arena, current |-> current, machine |-> Done,
            shown |-> None]
      ELSE LET a == Apply(arena, current, instruction[1])
               w == Window(a.arena, a.current)
           IN  [pc |-> IF a.machine = Done THEN "done" ELSE "loop",
                observed |-> key, instruction |-> instruction,
                arena |-> w.arena, current |-> a.current,
                machine |-> a.machine, shown |-> Some(w.shown)]

\* one turn of `while let VirtualMachine::Idle(idle) = machine`: the lookup
\* and its unwrap(), which panics on None, then apply and the print
Turn(prog, arena, current, idle) ==
  LET key == Observed(CursorLookup(arena, current), idle.state)
      instruction == ProgramGet(prog, key)
  IN  IF instruction = None
      THEN [pc |-> "panicked", observed |-> key, instruction |-> instruction,
            arena |-> arena, current |-> current, machine |-> idle,
            shown |-> None]
      ELSE LET a == Apply(arena, current, instruction[1])
               w == Window(a.arena, a.current)
           IN  [pc |-> IF a.machine = Done THEN "done" ELSE "loop",
                observed |-> key, instruction |-> instruction,
                arena |-> w.arena, current |-> a.current,
                machine |-> a.machine, shown |-> Some(w.shown)]

\* ------------------------------------------------------------- state
VARIABLES
  cells,        \* turing.rs: Tape.cells, the HashMap<i64, T>
  heads,        \* turing.rs: the integer head of each handle
  vm,           \* turing.rs: the VirtualMachine handed to execute()
  arena,        \* main.rs: every Cell allocated so far, by link
  cursors,      \* main.rs: Cursor.current of each handle
  machine,      \* main.rs: the VirtualMachine of the driver
  program,      \* main.rs: the Program (Observed -> Action) of the run
  pc,           \* main.rs: where simple_program() is
  printed,      \* main.rs: the cells print_jointed() was last handed
  trace,        \* history: the (Observed, Action) of every apply of the run
  twin,         \* main.rs: a second run of simple_program, started alike
  last,         \* history: the operation just performed, and the state it found
  trip,         \* history: a move_right and the move_left straight after it
  alias,        \* history: pairs <<c, c2>>, c2 cloned from c, neither moved since
  writtenPos,   \* history: positions ever set to a Some value
  writtenCells, \* history: cells ever set to a Some value
  visited,      \* history: positions a head has stood on
  ret           \* history: what the last operation returned, on either side

tapeVars == <<cells, heads, vm>>
chainVars == <<arena, cursors, machine>>
runVars == <<program, pc, printed, trace, twin>>
vars == <<cells, heads, vm, arena, cursors, machine, program, pc, printed,
          trace, twin, last, trip, alias, writtenPos, writtenCells, visited, ret>>

Handles == 1..Len(cursors)

\* the chain, cursor, machine and progress of a run of simple_program
Run(a, current, m, at, shown, steps) ==
  [arena |-> a, current |-> current, machine |-> m, pc |-> at,
   printed |-> shown, trace |-> steps]

\* no second run
NoTwin == Run(<<>>, NoLink, Done, "done", <<>>, <<>>)

NoOp ==
  [op |-> "new", c |-> 0, arg |-> None, cell |-> 0, head |-> 0,
   vm |-> Done, machine |-> Done]

\* VirtualMachine::new(state) has just been called
Made(state) == [NoOp EXCEPT !.arg = Some(state)]

\* the record of an operation of handle c, taken before it acts
Seen(op, c, arg) ==
  [op |-> op, c |-> c, arg |-> arg, cell |-> cursors[c], head |-> heads[c],
   vm |-> vm, machine |-> machine]

NoTrip == [c |-> 0, cell |-> 0, head |-> 0, val |-> None, new |-> FALSE,
           back |-> FALSE]

\* handle c leaves for the right: where it was and what it read there
TripOut(c) ==
  [c |-> c, cell |-> cursors[c], head |-> heads[c],
   val |-> CursorLookup(arena, cursors[c]),
   new |-> arena[cursors[c]].right = NoLink, back |-> FALSE]

\* handle c moves left: the trip is complete if c's move_right came just before
TripBack(c) ==
  IF trip.c = c /\ ~trip.back THEN [trip EXCEPT !.back = TRUE] ELSE NoTrip

Moved(c) == {pr \in alias : pr[1] # c /\ pr[2] # c}

\* the values an operation handed back: by Tape's method and by Cursor's
Returned(tape, chain) == [tape |-> tape, chain |-> chain]

\* nothing handed back: (), or a value that is part of the state already
NoRet == Returned(None, None)

\* the cells the chain may grow to in the specification at hand
CellBound == IF pc = "walk" THEN MaxWalkCells ELSE MaxCells

\* ------------------------------------- the operations, on both realizations
InitTapes ==
  /\ cells = TapeNew
  /\ heads = <<0>>
  /\ arena = OnNewEmptyTape.arena
  /\ cursors = <<OnNewEmptyTape.current>>
  /\ program = <<>>
  /\ pc = "ops"
  /\ printed = <<>>
  /\ trace = <<>>
  /\ twin = NoTwin
  /\ trip = NoTrip
  /\ alias = {}
  /\ writtenPos = {}
  /\ writtenCells = {}
  /\ visited = {0}
  /\ ret = NoRet

Lookup(c) ==
  /\ last' = Seen("lookup", c, None)
  /\ trip' = NoTrip
  /\ ret' = Returned(TapeValue(cells, heads[c]), CursorLookup(arena, cursors[c]))
  /\ UNCHANGED <<tapeVars, chainVars, runVars, alias, writtenPos, writtenCells,
                 visited>>

Set(c, value) ==
  /\ arena' = CursorSet(arena, cursors[c], value)
  /\ cells' = TapeSet(cells, heads[c], value).cells
  /\ ret' = Returned(TapeSet(cells, heads[c], value).ret, None)
  /\ last' = Seen("set", c, value)
  /\ trip' = NoTrip
  /\ writtenPos' = IF value = None THEN writtenPos
                   ELSE writtenPos \cup {heads[c]}
  /\ writtenCells' = IF value = None THEN writtenCells
                     ELSE writtenCells \cup {cursors[c]}
  /\ UNCHANGED <<heads, vm, cursors, machine, runVars, alias, visited>>

CanMoveRight(c) ==
  arena[cursors[c]].right # NoLink \/ Len(arena) < CellBound

CanMoveLeft(c) ==
  arena[cursors[c]].left # NoLink \/ Len(arena) < CellBound

MoveRight(c) ==
  /\ CanMoveRight(c)
  /\ LET m == CursorMoveRight(arena, cursors[c])
         t == TapeIterNext(cells, heads[c])
     IN  /\ arena' = m.arena
         /\ cursors' = [cursors EXCEPT ![c] = m.current]
         /\ heads' = [heads EXCEPT ![c] = t.head]
         /\ visited' = visited \cup {t.head}
         /\ ret' = Returned(t.ret, m.ret)
         /\ last' = Seen("move_right", c, None)
  /\ trip' = TripOut(c)
  /\ alias' = Moved(c)
  /\ UNCHANGED <<cells, vm, machine, runVars, writtenPos, writtenCells>>

MoveLeft(c) ==
  /\ CanMoveLeft(c)
  /\ LET m == CursorMoveLeft(arena, cursors[c])
         t == TapeIterNextBack(cells, heads[c])
     IN  /\ arena' = m.arena
         /\ cursors' = [cursors EXCEPT ![c] = m.current]
         /\ heads' = [heads EXCEPT ![c] = t.head]
         /\ visited' = visited \cup {t.head}
         /\ ret' = Returned(t.ret, m.ret)
         /\ last' = Seen("move_left", c, None)
  /\ trip' = TripBack(c)
  /\ alias' = Moved(c)
  /\ UNCHANGED <<cells, vm, machine, runVars, writtenPos, writtenCells>>

Clone(c) ==
  /\ Len(cursors) < MaxCursors
  /\ LET k == CursorClone(arena, cursors[c])
     IN  /\ arena' = k.arena
         /\ cursors' = Append(cursors, k.current)
  /\ heads' = Append(heads, heads[c])
  /\ last' = Seen("clone", c, None)
  /\ trip' = NoTrip
  /\ alias' = alias \cup {<<c, Len(cursors) + 1>>}
  /\ ret' = NoRet
  /\ UNCHANGED <<cells, vm, machine, runVars, writtenPos, writtenCells, visited>>

\* the step stays within the cells the bound allows
CanStep(c, movement) ==
  \/ movement = "Stay"
  \/ Len(arena) < MaxStepCells
  \/ movement = "Left" /\ arena[cursors[c]].left # NoLink
  \/ movement = "Right" /\ arena[cursors[c]].right # NoLink

\* one step with `action`: execute() on the map tape, and on the chain what one
\* turn of `while let VirtualMachine::Idle(idle) = machine` does with it
Step(c, action) ==
  /\ CanStep(c, action.movement)
  /\ LET e == Execute(vm, action, cells, heads[c])
     IN  /\ vm' = e.vm
         /\ heads' = [heads EXCEPT ![c] = e.head]
         /\ visited' = visited \cup {e.head}
         /\ cells' = e.cells
         /\ writtenPos' = IF vm = Done \/ action.set = None THEN writtenPos
                          ELSE writtenPos \cup {heads[c]}
  /\ IF machine = Done
     THEN UNCHANGED <<arena, cursors, machine, writtenCells>>
     ELSE LET a == Apply(arena, cursors[c], action)
          IN  /\ arena' = a.arena
              /\ cursors' = [cursors EXCEPT ![c] = a.current]
              /\ machine' = a.machine
              /\ writtenCells' = IF action.set = None THEN writtenCells
                                 ELSE writtenCells \cup {cursors[c]}
  /\ last' = Seen("step", c, action)
  /\ trip' = NoTrip
  /\ alias' = IF action.movement = "Stay" \/ (vm = Done /\ machine = Done)
              THEN alias ELSE Moved(c)
  /\ UNCHANGED <<runVars, ret>>

\* the tape and cursor operations, the machine left as constructed
Init ==
  /\ InitTapes
  /\ vm = VirtualMachineNew("a")
  /\ machine = VirtualMachineNew("a")
  /\ last = Made("a")

Next ==
  \/ \E c \in Handles : Lookup(c)
  \/ \E c \in Handles, value \in OptSymbols : Set(c, value)
  \/ \E c \in Handles : MoveRight(c)
  \/ \E c \in Handles : MoveLeft(c)
  \/ \E c \in Handles : Clone(c)

Spec == Init /\ [][Next]_vars

\* a single cursor, and a single head, walked over a new tape
InitWalk ==
  /\ cells = TapeNew
  /\ heads = <<0>>
  /\ vm = VirtualMachineNew("a")
  /\ arena = OnNewEmptyTape.arena
  /\ cursors = <<OnNewEmptyTape.current>>
  /\ machine = VirtualMachineNew("a")
  /\ program = <<>>
  /\ pc = "walk"
  /\ printed = <<>>
  /\ trace = <<>>
  /\ twin = NoTwin
  /\ last = Made("a")
  /\ trip = NoTrip
  /\ alias = {}
  /\ writtenPos = {}
  /\ writtenCells = {}
  /\ visited = {0}
  /\ ret = NoRet

NextWalk ==
  \/ Lookup(1)
  \/ \E value \in OptSymbols : Set(1, value)
  \/ MoveRight(1)
  \/ MoveLeft(1)

SpecWalk == InitWalk /\ [][NextWalk]_vars

\* ------------------------------------------------ iterating the two tapes
IterPositions == (0 - MaxIterSpan)..MaxIterSpan

\* the writes and moves that lay `contents` on a new tape, outwards to the
\* right, back to the origin, outwards to the left, and then lead to h
LayScript(contents, h) ==
  <<<<"set", contents[0]>>>>
    \o [i \in 1..(2 * MaxIterSpan) |->
          IF i % 2 = 1 THEN <<"right", None>>
          ELSE <<"set", contents[i \div 2]>>]
    \o [i \in 1..MaxIterSpan |-> <<"left", None>>]
    \o [i \in 1..(2 * MaxIterSpan) |->
          IF i % 2 = 1 THEN <<"left", None>>
          ELSE <<"set", contents[0 - (i \div 2)]>>]
    \o [i \in 1..(MaxIterSpan + h) |-> <<"right", None>>]

\* the map tape with its head and the chain with its cursor after the script
Laid(contents, h) ==
  LET script == LayScript(contents, h)
      w[i \in 0..Len(script)] ==
        IF i = 0
        THEN [arena |-> OnNewEmptyTape.arena, current |-> OnNewEmptyTape.current,
              cells |-> TapeNew, head |-> 0]
        ELSE LET p == w[i - 1]
                 op == script[i]
             IN  CASE op[1] = "set" ->
                        [arena |-> CursorSet(p.arena, p.current, op[2]),
                         current |-> p.current,
                         cells |-> TapeSet(p.cells, p.head, op[2]).cells,
                         head |-> p.head]
                   [] op[1] = "right" ->
                        [arena |-> CursorMoveRight(p.arena, p.current).arena,
                         current |-> CursorMoveRight(p.arena, p.current).current,
                         cells |-> p.cells,
                         head |-> TapeIterNext(p.cells, p.head).head]
                   [] op[1] = "left" ->
                        [arena |-> CursorMoveLeft(p.arena, p.current).arena,
                         current |-> CursorMoveLeft(p.arena, p.current).current,
                         cells |-> p.cells,
                         head |-> TapeIterNextBack(p.cells, p.head).head]
  IN  w[Len(script)]

\* tape.iter_with(h) and a cursor standing at h, about to be iterated forward
\* or, as .rev() does, backward
InitIter ==
  \E contents \in [IterPositions -> OptSymbols], h \in IterPositions,
     way \in {"forward", "reverse"} :
    LET t == Laid(contents, h)
    IN  /\ cells = t.cells
        /\ heads = <<t.head>>
        /\ vm = VirtualMachineNew("a")
        /\ arena = t.arena
        /\ cursors = <<t.current>>
        /\ machine = VirtualMachineNew("a")
        /\ program = <<>>
        /\ pc = way
        /\ printed = <<>>
        /\ trace = <<>>
        /\ twin = NoTwin
        /\ last = [NoOp EXCEPT !.op = "iter", !.arg = Some(h), !.head = t.head,
                                !.cell = t.current]
        /\ trip = NoTrip
        /\ alias = {}
        /\ writtenPos = {q \in IterPositions : contents[q] # None}
        /\ writtenCells = {k \in 1..Len(t.arena) : t.arena[k].value # None}
        /\ visited = IterPositions
        /\ ret = NoRet

\* next() of TapeIter and of the Cursor: the item, wrapped in Some, is kept
IterNext ==
  /\ pc = "forward"
  /\ Len(trace) < MaxIter
  /\ LET t == TapeIterNext(cells, heads[1])
         n == CursorNext(arena, cursors[1])
     IN  /\ heads' = <<t.head>>
         /\ arena' = n.arena
         /\ cursors' = <<n.current>>
         /\ trace' = Append(trace, [tape |-> Some(t.ret), chain |-> Some(n.item)])
         /\ visited' = visited \cup {t.head}
  /\ last' = Seen("next", 1, last.arg)
  /\ UNCHANGED <<cells, vm, machine, program, pc, printed, twin, trip, alias,
                 writtenPos, writtenCells, ret>>

\* next_back() of TapeIter and of the Cursor
IterNextBack ==
  /\ pc = "reverse"
  /\ Len(trace) < MaxIter
  /\ LET t == TapeIterNextBack(cells, heads[1])
         n == CursorNextBack(arena, cursors[1])
     IN  /\ heads' = <<t.head>>
         /\ arena' = n.arena
         /\ cursors' = <<n.current>>
         /\ trace' = Append(trace, [tape |-> Some(t.ret), chain |-> Some(n.item)])
         /\ visited' = visited \cup {t.head}
  /\ last' = Seen("next_back", 1, last.arg)
  /\ UNCHANGED <<cells, vm, machine, program, pc, printed, twin, trip, alias,
                 writtenPos, writtenCells, ret>>

\* print_jointed(cursor.clone().rev().nth(2).unwrap().take(5)) of the cursor
TakeWindow ==
  /\ LET w == Window(arena, cursors[1])
     IN  /\ arena' = w.arena
         /\ printed' = w.shown
  /\ last' = Seen("window", 1, last.arg)
  /\ UNCHANGED <<tapeVars, cursors, machine, program, pc, trace, twin, trip,
                 alias, writtenPos, writtenCells, visited, ret>>

NextIter == IterNext \/ IterNextBack \/ TakeWindow

SpecIter == InitIter /\ [][NextIter]_vars

\* ------------------------------------- steps by the ends of the i64 range
\* a new tape and a running machine, the head handed to execute() at or next
\* to an end of the range; the cursor on a new chain, which has no positions
InitEdge ==
  \E h \in {HeadMin, HeadMin + 1, HeadMax - 1, HeadMax}, s \in States :
    /\ cells = TapeNew
    /\ heads = <<h>>
    /\ vm = VirtualMachineNew(s)
    /\ arena = OnNewEmptyTape.arena
    /\ cursors = <<OnNewEmptyTape.current>>
    /\ machine = VirtualMachineNew(s)
    /\ program = <<>>
    /\ pc = "edge"
    /\ printed = <<>>
    /\ trace = <<>>
    /\ twin = NoTwin
    /\ last = [Made(s) EXCEPT !.head = h]
    /\ trip = NoTrip
    /\ alias = {}
    /\ writtenPos = {}
    /\ writtenCells = {}
    /\ visited = {h}
    /\ ret = NoRet

\* one step with `action`: execute() on the map tape under either build, and
\* apply() on the chain
EdgeStep(action, build) ==
  /\ pc = "edge"
  /\ Len(trace) < MaxEdgeSteps
  /\ LET e == ExecuteI64(build, vm, action, cells, heads[1])
     IN  /\ vm' = e.vm
         /\ heads' = <<e.head>>
         /\ cells' = e.cells
         /\ pc' = IF e.fault THEN "panicked" ELSE "edge"
         /\ visited' = visited \cup {e.head}
         /\ writtenPos' = IF vm = Done \/ action.set = None THEN writtenPos
                          ELSE writtenPos \cup {heads[1]}
  /\ IF machine = Done
     THEN UNCHANGED <<arena, cursors, machine, writtenCells>>
     ELSE LET a == Apply(arena, cursors[1], action)
          IN  /\ arena' = a.arena
              /\ cursors' = <<a.current>>
              /\ machine' = a.machine
              /\ writtenCells' = IF action.set = None THEN writtenCells
                                 ELSE writtenCells \cup {cursors[1]}
  /\ trace' = Append(trace, build)
  /\ last' = Seen("step", 1, action)
  /\ UNCHANGED <<program, printed, twin, trip, alias, ret>>

NextEdge ==
  \/ pc = "edge" /\ Lookup(1)
  \/ pc = "edge" /\ \E value \in OptSymbols : Set(1, value)
  \/ \E action \in Actions, build \in Builds : EdgeStep(action, build)

SpecEdge == InitEdge /\ [][NextEdge]_vars

\* the machine stepped with arbitrary actions over the head of handle 1
InitStep ==
  /\ InitTapes
  /\ \E s \in States :
       /\ vm = VirtualMachineNew(s)
       /\ machine = VirtualMachineNew(s)
       /\ last = Made(s)

NextStep == \E action \in Actions : Step(1, action)

SpecStep == InitStep /\ [][NextStep]_vars

\* --------------------------------------------- the run of simple_program
\* the programs a run is started with: build_simple_program's table, and it
\* with one entry replaced, added or left out
Keys == {Observed(v, s) : v \in OptSymbols, s \in States}

Without(prog, key) == [k \in (DOMAIN prog) \ {key} |-> prog[k]]

Programs ==
  {SimpleProgram}
    \cup {ProgramInsert(SimpleProgram, k, a) : k \in Keys, a \in Actions}
    \cup {Without(SimpleProgram, k) : k \in DOMAIN SimpleProgram}

\* simple_program() at the head of its loop for the first time: the cursor on
\* a new tape, the first cell set, the window printed, the machine made
InitRun ==
  \E prog \in Programs, symbol \in OptSymbols, state \in States :
    LET t == OnNewEmptyTape
        w == Window(CursorSet(t.arena, t.current, symbol), t.current)
    IN  /\ program = prog
        /\ arena = w.arena
        /\ cursors = <<t.current>>
        /\ printed = w.shown
        /\ machine = VirtualMachineNew(state)
        /\ pc = "loop"
        /\ trace = <<>>
        /\ twin = Run(w.arena, t.current, VirtualMachineNew(state), "loop",
                      w.shown, <<>>)
        /\ last = Made(state)
        /\ trip = NoTrip
        /\ alias = {}
        /\ writtenPos = {}
        /\ writtenCells = IF symbol = None THEN {} ELSE {t.current}
        /\ cells = TapeNew
        /\ heads = <<0>>
        /\ vm = VirtualMachineNew(state)
        /\ visited = {0}
        /\ ret = NoRet

\* a turn of the loop that, on a missing entry, may halt as well as panic
DriverTurnEither ==
  /\ pc = "loop"
  /\ machine # Done
  /\ Len(trace) < MaxSteps
  /\ \E miss \in {"panicked", "done"} :
       LET t == Turn(program, arena, cursors[1], machine)
       IN  /\ pc' = IF t.pc = "panicked" THEN miss ELSE t.pc
           /\ arena' = t.arena
           /\ cursors' = <<t.current>>
           /\ machine' = IF t.pc = "panicked" /\ miss = "done" THEN Done
                         ELSE t.machine
           /\ printed' = IF t.shown = None THEN printed ELSE t.shown[1]
           /\ trace' = Append(trace,
                              [observed |-> t.observed,
                               instruction |-> t.instruction,
                               at |-> Displacement(arena, cursors[1])])
           /\ last' = Seen("turn", 1, t.instruction)
           /\ writtenCells' =
                IF t.instruction = None \/ t.instruction[1].set = None
                THEN writtenCells ELSE writtenCells \cup {cursors[1]}
  /\ UNCHANGED <<tapeVars, program, twin, trip, alias, writtenPos, visited,
                 ret>>

DriverTurn ==
  /\ pc = "loop"
  /\ machine # Done
  /\ Len(trace) < MaxSteps
  /\ LET t == Turn(program, arena, cursors[1], machine)
     IN  /\ pc' = t.pc
         /\ arena' = t.arena
         /\ cursors' = <<t.current>>
         /\ machine' = t.machine
         /\ printed' = IF t.shown = None THEN printed ELSE t.shown[1]
         /\ trace' = Append(trace,
                            [observed |-> t.observed,
                             instruction |-> t.instruction,
                             at |-> Displacement(arena, cursors[1])])
         /\ last' = Seen("turn", 1, t.instruction)
         /\ writtenCells' =
              IF t.instruction = None \/ t.instruction[1].set = None
              THEN writtenCells ELSE writtenCells \cup {cursors[1]}
  /\ UNCHANGED <<tapeVars, program, twin, trip, alias, writtenPos, visited,
                 ret>>

NextRun == DriverTurn

SpecRun == InitRun /\ [][NextRun]_vars

\* the same turn of the loop, taken by the second run
TwinTurn ==
  /\ twin.pc = "loop"
  /\ twin.machine # Done
  /\ Len(twin.trace) < MaxSteps
  /\ LET t == Turn(program, twin.arena, twin.current, twin.machine)
     IN  twin' = Run(t.arena, t.current, t.machine, t.pc,
                     IF t.shown = None THEN twin.printed ELSE t.shown[1],
                     Append(twin.trace,
                            [observed |-> t.observed,
                             instruction |-> t.instruction,
                             at |-> Displacement(twin.arena, twin.current)]))
  /\ UNCHANGED <<tapeVars, chainVars, program, pc, printed, trace, last, trip,
                 alias, writtenPos, writtenCells, visited, ret>>

\* two runs of simple_program with the same program, tape, head and state,
\* each taking its turns at its own pace
NextTwin == DriverTurn \/ TwinTurn

SpecTwin == InitRun /\ [][NextTwin]_vars

\* ------------------------------------------------------------- claims
\* positions read on the map tape: every reachable head and beyond
Positions == (0 - MaxCells)..MaxCells

\* C1: Blank invariant.  A position of the map tape, or a cell of the chain,
\* that was never written with a Some value reads None; this covers every
\* position of the fresh tape and the cell a move has just materialized.
BlankInvariant ==
  /\ \A p \in Positions : p \notin writtenPos => TapeValue(cells, p) = None
  /\ \A k \in 1..Len(arena) :
       k \notin writtenCells => CursorLookup(arena, k) = None
  /\ (trip.c # 0 /\ trip.new /\ ~trip.back) =>
       /\ cursors[trip.c] = Len(arena)
       /\ CursorLookup(arena, cursors[trip.c]) = None
       /\ TapeValue(cells, heads[trip.c]) = None

\* a move_right from a cell holding a Some value has just materialized a cell
BlankWitness ==
  /\ trip.c # 0 /\ trip.new /\ ~trip.back
  /\ trip.val # None
  /\ CursorLookup(arena, cursors[trip.c]) = None
  /\ TapeValue(cells, heads[trip.c]) = None
  /\ trip.head \in writtenPos

\* C2: Write/read round-trip.  Right after a write of v (None included)
\* through a handle, a read through the same handle returns exactly v, on the
\* map tape (set then value) and on the chain (set then lookup).
WriteReadRoundTrip ==
  last.op = "set" =>
    /\ TapeValue(cells, heads[last.c]) = last.arg
    /\ CursorLookup(arena, cursors[last.c]) = last.arg

\* a position that held a Some value has just been cleared with None
WriteReadWitness ==
  /\ last.op = "set"
  /\ last.arg = None
  /\ last.head \in writtenPos
  /\ last.cell \in writtenCells
  /\ last.head # 0

\* C9: Cursor aliasing.  A clone is a second handle on the identical cell,
\* and while neither handle has moved a write through either one is read
\* through the other.
CursorAliasing ==
  /\ last.op = "clone" => cursors[Len(cursors)] = last.cell
  /\ \A pr \in alias :
       /\ cursors[pr[1]] = cursors[pr[2]]
       /\ (last.op = "set" /\ last.c \in {pr[1], pr[2]}) =>
            /\ CursorLookup(arena, cursors[pr[1]]) = last.arg
            /\ CursorLookup(arena, cursors[pr[2]]) = last.arg

\* a Some value has just been written through the clone of a cursor that had
\* walked away from the origin
CursorAliasingWitness ==
  /\ last.op = "set"
  /\ last.c = 2
  /\ <<1, 2>> \in alias
  /\ last.arg = Some("b")
  /\ cursors[1] # 1
  /\ CursorLookup(arena, cursors[1]) = Some("b")

\* C10: Move symmetry.  move_right followed at once by move_left of the same
\* handle leaves it on the identical cell it started on, whether or not the
\* right neighbour existed, and it reads there the value it read before.
MoveSymmetry ==
  trip.back =>
    /\ cursors[trip.c] = trip.cell
    /\ CursorLookup(arena, cursors[trip.c]) = trip.val
    /\ heads[trip.c] = trip.head

\* a round trip over a right neighbour that the move_right had to materialize
MoveSymmetryWitness ==
  /\ trip.back
  /\ trip.new
  /\ trip.val # None
  /\ Len(cursors) = 2

\* a round trip over a right neighbour that existed already
MoveSymmetryKnownWitness == trip.back /\ ~trip.new /\ trip.val # None

\* the head a movement leads to from head p
HeadAfter(movement, p) ==
  IF movement = "Left" THEN p - 1 ELSE IF movement = "Right" THEN p + 1 ELSE p

\* C3: Step ordering.  A step from a Running machine with the head at p
\* leaves the action's write value in the cell at p, the cell the head was on
\* before the move, and the head at p-1 for Left, p+1 for Right, p for Stay.
StepOrdering ==
  last.op = "step" =>
    /\ last.vm # Done =>
         /\ TapeValue(cells, last.head) = last.arg.set
         /\ heads[last.c] = HeadAfter(last.arg.movement, last.head)
    /\ last.machine # Done =>
         /\ CursorLookup(arena, last.cell) = last.arg.set
         /\ cursors[last.c] # NoLink
         /\ cursors[last.c] = CellAt(arena, last.cell,
                                     HeadAfter(last.arg.movement, 0))
         /\ Displacement(arena, cursors[last.c]) =
              HeadAfter(last.arg.movement, Displacement(arena, last.cell))

\* a Running machine has written b and moved Left onto a cell holding a
StepOrderingWitness ==
  /\ last.op = "step"
  /\ last.vm # Done /\ last.machine # Done
  /\ last.arg.set = Some("b")
  /\ last.arg.movement = "Left"
  /\ cursors[last.c] # last.cell
  /\ CursorLookup(arena, cursors[last.c]) = Some("a")
  /\ TapeValue(cells, heads[last.c]) = Some("a")

\* C4: Next machine value.  new(initial) is Running(initial); a step from
\* Running whose action says State(s) yields Running(s), and one whose action
\* says Halt yields Halted, in that one step.
NextMachineValue ==
  /\ last.op = "new" =>
       /\ vm = Idle(last.arg[1])
       /\ machine = Idle(last.arg[1])
  /\ (last.op = "step" /\ last.vm # Done) =>
       /\ last.arg.transition = Halt => vm = Done
       /\ \A s \in States : last.arg.transition = State(s) => vm = Idle(s)
  /\ (last.op = "step" /\ last.machine # Done) =>
       /\ last.arg.transition = Halt => machine = Done
       /\ \A s \in States : last.arg.transition = State(s) => machine = Idle(s)

\* a machine Running in state a has just been stepped with a Halt action
NextMachineValueWitness ==
  /\ last.op = "step"
  /\ last.vm = Idle("a") /\ last.machine = Idle("a")
  /\ last.arg.transition = Halt
  /\ vm = Done /\ machine = Done

\* C5: Halted is terminal.  execute on a Done machine returns Done and the
\* same head and leaves the tape as it was, whatever the action: once Done,
\* the machine, the tape and the head stay as they are under any steps.
HaltedIsTerminal ==
  [][vm = Done => (vm' = Done /\ cells' = cells /\ heads' = heads)]_vars

\* a Done machine has been stepped with an action that would have written,
\* moved and resumed
HaltedIsTerminalWitness ==
  /\ last.op = "step"
  /\ last.vm = Done
  /\ last.arg = Action(Some("a"), "Right", State("a"))
  /\ TapeValue(cells, last.head) # Some("a")
  /\ vm = Done

\* the (symbol, state) pair the driver is about to look up
Observing == Observed(CursorLookup(arena, cursors[1]), machine.state)

\* C6: Unhandled input.  When the program has no entry for the symbol under
\* the cursor and the current state, the turn ends in the panic of unwrap(),
\* which is neither a further Running turn nor Halted, and every cell, the
\* cursor and the machine state are as before; no turn panics otherwise, and
\* none follows a panic.
UnhandledInput ==
  [][/\ pc = "loop"
     /\ ProgramGet(program, Observing) = None =>
          /\ pc' = "panicked"
          /\ arena' = arena
          /\ cursors' = cursors
          /\ machine' = machine
          /\ machine' # Done
     /\ pc' = "panicked" => ProgramGet(program, Observing) = None]_vars

\* a run has panicked on its third lookup, after two applied actions
UnhandledInputWitness ==
  /\ pc = "panicked"
  /\ Len(trace) = 3
  /\ trace[3].instruction = None
  /\ trace[2].instruction # None
  /\ machine # Done

\* the copy-and-erase scenario: build_simple_program's table, Some('a') under
\* the head at the origin, control-state a
Scenario ==
  /\ program = SimpleProgram
  /\ trace # <<>>
  /\ trace[1].observed = Observed(Some("a"), "a")
  /\ trace[1].at = 0

\* the positions of the chain, relative to the cell the run started on
Reach == (0 - Len(arena))..Len(arena)

\* C7 as stated: the scenario ends Halted with 'a' at position -1 and the
\* cell at position 0, which held 'a' then 'b', blank.
ScenarioFinalStateAsStated ==
  (Scenario /\ pc = "done") =>
    /\ machine = Done
    /\ ValueAt(arena, 1, 0 - 1) = Some("a")
    /\ ValueAt(arena, 1, 0) = None

\* C7, amended: the scenario does not fault and ends Halted with 'a' at
\* position -1 and 'b', not blank, at position 0, every other cell blank.
ScenarioFinalState ==
  Scenario =>
    /\ pc # "panicked"
    /\ Len(trace) >= 2 => pc = "done"
    /\ pc = "done" =>
         /\ machine = Done
         /\ ValueAt(arena, 1, 0 - 1) = Some("a")
         /\ ValueAt(arena, 1, 0) = Some("b")
         /\ \A d \in Reach : d \notin {0 - 1, 0} => ValueAt(arena, 1, d) = None

\* the scenario has run to its end
ScenarioFinalStateWitness ==
  /\ Scenario
  /\ pc = "done"
  /\ machine = Done
  /\ printed = <<"_", "_", "a", "b", "_">>

\* C8 as stated: the scenario takes exactly three steps, the second applying
\* the (Some('b'), b) entry (clear, Right, stay in b), the third the
\* (None, b) entry (write 'a', Stay, Halt).
ScenarioTraceAsStated ==
  (Scenario /\ pc = "done") =>
    /\ Len(trace) = 3
    /\ trace[1].instruction = Some(Action(Some("b"), "Left", State("b")))
    /\ trace[2].observed = Observed(Some("b"), "b")
    /\ trace[2].instruction = Some(Action(None, "Right", State("b")))
    /\ trace[3].observed = Observed(None, "b")
    /\ trace[3].instruction = Some(Action(Some("a"), "Stay", Halt))

\* C8, amended: the scenario takes exactly two steps without a fault.  Step 1
\* writes 'b' at position 0, moves Left and enters state b; step 2 finds the
\* cell at -1 blank, so it applies the (None, b) entry: it writes 'a' there
\* without moving and halts.  The (Some('b'), b) entry is never applied.
ScenarioTrace ==
  Scenario =>
    /\ pc # "panicked"
    /\ Len(trace) <= 2
    /\ pc = "done" <=> Len(trace) = 2
    /\ trace[1].instruction = Some(Action(Some("b"), "Left", State("b")))
    /\ Len(trace) = 1 =>
         /\ ValueAt(arena, 1, 0) = Some("b")
         /\ Displacement(arena, cursors[1]) = 0 - 1
         /\ machine = Idle("b")
    /\ Len(trace) = 2 =>
         /\ trace[2].observed = Observed(None, "b")
         /\ trace[2].at = 0 - 1
         /\ trace[2].instruction = Some(Action(Some("a"), "Stay", Halt))
         /\ ValueAt(arena, 1, 0 - 1) = Some("a")
         /\ Displacement(arena, cursors[1]) = 0 - 1
         /\ machine = Done
    /\ \A i \in 1..Len(trace) : trace[i].observed # Observed(Some("b"), "b")

\* the scenario after its second and last step
ScenarioTraceWitness ==
  /\ Scenario
  /\ Len(trace) = 2
  /\ trace[2].instruction = Some(Action(Some("a"), "Stay", Halt))
  /\ pc = "done"

\* C11: Path-independent cell identity.  Handles that stand at the same net
\* displacement from the origin are on the identical cell, however their
\* moves were interleaved; every cell ever materialized is the one cell of
\* exactly one position of the chain, and neighbours link each other.
PathIndependentIdentity ==
  /\ \A c1, c2 \in Handles : heads[c1] = heads[c2] => cursors[c1] = cursors[c2]
  /\ \A c \in Handles : cursors[c] = CellAt(arena, 1, heads[c])
  /\ \A k \in 1..Len(arena) :
       /\ Cardinality({d \in Reach : CellAt(arena, 1, d) = k}) = 1
       /\ arena[k].right # NoLink => arena[arena[k].right].left = k
       /\ arena[k].left # NoLink => arena[arena[k].left].right = k

\* a handle has just walked from the origin onto the cell where the other
\* handle, which made its own way there, already stands
PathIndependentIdentityWitness ==
  /\ Len(cursors) = 2
  /\ last.op = "move_left"
  /\ last.c = 2
  /\ last.cell = 1
  /\ alias = {}
  /\ cursors[1] = cursors[2]
  /\ heads[1] = 0 - 1

\* the positions from the origin to p, both included
Between(p) == IF p < 0 THEN p..0 ELSE 0..p

\* C12: Lazy extension cost.  lookup and set allocate no cell; a move
\* allocates one cell, blank, exactly when the neighbour on that side does not
\* exist yet, and none when it moves over a known cell; so the cells
\* materialized since on_new_empty_tape are as many as the positions reached
\* besides the origin, and a cursor walked n moves straight away from the
\* origin and then read or written has caused exactly n materializations.
LazyExtensionCost ==
  [][/\ last'.op \in {"lookup", "set"} => Len(arena') = Len(arena)
     /\ last'.op = "move_right" =>
          IF arena[cursors[last'.c]].right = NoLink
          THEN /\ Len(arena') = Len(arena) + 1
               /\ CursorLookup(arena', Len(arena')) = None
               /\ cursors'[last'.c] = Len(arena')
          ELSE Len(arena') = Len(arena)
     /\ last'.op = "move_left" =>
          IF arena[cursors[last'.c]].left = NoLink
          THEN /\ Len(arena') = Len(arena) + 1
               /\ CursorLookup(arena', Len(arena')) = None
               /\ cursors'[last'.c] = Len(arena')
          ELSE Len(arena') = Len(arena)
     /\ Len(arena') - 1 = Cardinality(visited' \ {0})
     /\ \A n \in 0..MaxWalkCells :
          (heads'[1] \in {n, 0 - n} /\ visited' = Between(heads'[1])) =>
            Len(arena') - 1 = n]_vars

\* a cursor walked straight to the left as far as the chain may grow has just
\* been written
LazyExtensionCostWitness ==
  /\ pc = "walk"
  /\ last.op = "set"
  /\ last.arg # None
  /\ heads[1] = 1 - MaxWalkCells
  /\ visited = Between(heads[1])
  /\ Len(arena) = MaxWalkCells

\* the first run, as a whole
FirstRun == Run(arena, cursors[1], machine, pc, printed, trace)

TwoRealizations ==
  /\ vm = machine
  /\ \A c \in Handles :
       /\ Displacement(arena, cursors[c]) = heads[c]
       /\ CursorLookup(arena, cursors[c]) = TapeValue(cells, heads[c])
  /\ \A d \in Reach \cup DOMAIN cells : ValueAt(arena, 1, d) = TapeValue(cells, d)
  /\ last.op \in {"lookup", "move_right", "move_left"} => ret.tape = ret.chain

\* after a step to the right the head is back on the origin, between a cell
\* holding a and a cell holding b, and the machine still runs
TwoRealizationsWitness ==
  /\ last.op = "step"
  /\ last.arg.movement = "Right"
  /\ last.vm # Done
  /\ vm # Done
  /\ heads[1] = 0
  /\ TapeValue(cells, 0 - 1) = Some("a")
  /\ ValueAt(arena, 1, 1) = Some("b")
  /\ TapeValue(cells, 0) = None

\* C15: Writing blank equals never having written.  Every set(p, v) makes p
\* a key of the map exactly when v is a Some value and leaves every other
\* entry as it was, so the keys are at all times the positions whose most
\* recent set carried a Some value; set(p, None) leaves the map that has no
\* entry for p, the very map it was if p had none, and a tape whose written
\* positions have all been cleared is the new tape again.
WritingBlank ==
  [][/\ last'.op = "set" =>
          /\ DOMAIN cells' = IF last'.arg = None
                             THEN (DOMAIN cells) \ {heads[last'.c]}
                             ELSE (DOMAIN cells) \cup {heads[last'.c]}
          /\ \A q \in (DOMAIN cells') \ {heads[last'.c]} : cells'[q] = cells[q]
          /\ last'.arg = None => cells' = Without(cells, heads[last'.c])
          /\ (last'.arg = None /\ heads[last'.c] \notin DOMAIN cells) =>
               cells' = cells
     /\ last'.op # "set" => cells' = cells
     /\ DOMAIN cells' \subseteq writtenPos'
     /\ \A q \in DOMAIN cells' : cells'[q] \in Symbols
     /\ (\A q \in visited' : TapeValue(cells', q) = None) => cells' = TapeNew]_vars

\* the last of two written positions has just been cleared
WritingBlankWitness ==
  /\ pc = "walk"
  /\ last.op = "set"
  /\ last.arg = None
  /\ ret.tape # None
  /\ Cardinality(writtenPos) = 2
  /\ last.head \in writtenPos
  /\ cells = TapeNew

\* C16: Tape::set(p, v) returns what p held immediately before the call:
\* None when p was blank, never written or cleared, and Some(old) when it held
\* old, whatever v is, None included, and whatever was set earlier.
SetReturnsOld ==
  [][last'.op = "set" =>
       /\ ret'.tape = TapeValue(cells, heads[last'.c])
       /\ heads[last'.c] \notin DOMAIN cells => ret'.tape = None
       /\ heads[last'.c] \in DOMAIN cells =>
            ret'.tape = Some(cells[heads[last'.c]])
       /\ heads[last'.c] \notin writtenPos => ret'.tape = None]_vars

\* a position away from the origin that held a has just been overwritten with b
SetReturnsOldWitness ==
  /\ pc = "walk"
  /\ last.op = "set"
  /\ last.arg = Some("b")
  /\ ret.tape = Some("a")
  /\ last.head # 0
  /\ TapeValue(cells, last.head) = Some("b")

\* a cleared position has just been cleared again
SetReturnsOldClearedWitness ==
  /\ pc = "walk"
  /\ last.op = "set"
  /\ last.arg = None
  /\ ret.tape = None
  /\ last.head \in writtenPos

\* the position the i-th item of the iteration is due from
Due(i) == IF pc = "forward" THEN last.arg[1] + i - 1 ELSE last.arg[1] - i + 1

\* C17: Window and iteration order.  Iterating forward from h yields the
\* values at h, h+1, h+2, ..., iterating in reverse the values at h, h-1,
\* h-2, ..., a blank as None; every call yields Some item, so the iteration
\* does not end; the cursor's items are the cells at those positions; and the
\* window taken with the cursor at p shows the cells at p-2 .. p+2 from left
\* to right, `_ _ a _ _` for a tape holding a single a under the cursor.
IterationOrder ==
  /\ \A i \in 1..Len(trace) :
       /\ trace[i].tape = Some(TapeValue(cells, Due(i)))
       /\ trace[i].chain # None
       /\ Displacement(arena, trace[i].chain[1]) = Due(i)
       /\ CursorLookup(arena, trace[i].chain[1]) = TapeValue(cells, Due(i))
  /\ heads[1] = Due(Len(trace) + 1)
  /\ Displacement(arena, cursors[1]) = Due(Len(trace) + 1)
  /\ last.op = "window" =>
       /\ printed = [i \in 1..5 |-> Glyph(TapeValue(cells, last.head + i - 3))]
       /\ printed = [i \in 1..5 |-> Glyph(ValueAt(arena, last.cell, i - 3))]
       /\ (DOMAIN cells = {last.head} /\ cells[last.head] = "a") =>
            printed = <<"_", "_", "a", "_", "_">>

\* a reverse iteration from the right of a written stretch has yielded b, a
\* and then a blank, and the window is taken where it stopped
IterationOrderWitness ==
  /\ pc = "reverse"
  /\ Len(trace) = 3
  /\ trace[1].tape = Some(Some("b"))
  /\ trace[2].tape = Some(Some("a"))
  /\ trace[3].tape = Some(None)
  /\ last.op = "window"
  /\ printed = <<"_", "_", "_", "_", "a">>

\* the window of the scenario before its first step
IterationOrderScenarioWitness ==
  /\ last.op = "window"
  /\ trace = <<>>
  /\ cells = [q \in {0} |-> "a"]
  /\ heads[1] = 0
  /\ printed = <<"_", "_", "a", "_", "_">>

\* C18: The window has no visible effect on the run.  A turn of the loop,
\* which applies the action and then walks a clone of the cursor backward and
\* forward for the window, leaves the driver's cursor on the cell where apply
\* left it and every cell with the value apply left in it; every cell the
\* walk materialized is blank, so every position reads as it would had no
\* window been taken, the cell under the cursor included.
WindowNoEffect ==
  [][(pc = "loop" /\ ProgramGet(program, Observing) # None) =>
       LET a == Apply(arena, cursors[1], ProgramGet(program, Observing)[1])
       IN  /\ cursors' = <<a.current>>
           /\ machine' = a.machine
           /\ Len(arena') >= Len(a.arena)
           /\ \A k \in 1..Len(a.arena) : arena'[k].value = a.arena[k].value
           /\ \A k \in (Len(a.arena) + 1)..Len(arena') : arena'[k].value = None
           /\ \A d \in (0 - Len(arena'))..Len(arena') :
                ValueAt(arena', cursors'[1], d) = ValueAt(a.arena, a.current, d)
           /\ CursorLookup(arena', cursors'[1]) = CursorLookup(a.arena, a.current)]_vars

\* two steps to the left, each leaving a symbol behind, have each been
\* followed by a window whose walk materialized cells further out
WindowNoEffectWitness ==
  /\ pc = "loop"
  /\ Len(trace) = 2
  /\ trace[1].instruction # None
  /\ trace[1].instruction[1].movement = "Left"
  /\ trace[2].instruction # None
  /\ trace[2].instruction[1].movement = "Left"
  /\ printed = <<"_", "_", "_", "b", "b">>
  /\ Len(arena) = 9
  /\ CursorLookup(arena, cursors[1]) = None

\* C19 as stated: reads, writes and head moves never fail.  With the head
\* anywhere in the range of its integer type, the smallest and the largest
\* position included, value, set and a step run to completion without a
\* fault, and a step from a Running machine leaves the head one position
\* lower for Left and one higher for Right.
MovesNeverFail ==
  /\ pc # "panicked"
  /\ (last.op = "step" /\ last.vm # Done) =>
       heads[1] = HeadAfter(last.arg.movement, last.head)
  /\ last.op = "set" => TapeValue(cells, heads[1]) = last.arg
  /\ last.op = "lookup" => ret.tape = TapeValue(cells, heads[1])

\* what the code does at the ends of the range: a Left step at the smallest
\* position, or a Right step at the largest, from a Running machine either
\* panics after the write (checked arithmetic) or lands on the other end of
\* the range (wrapping arithmetic); every other step, and every value and
\* set, completes as C19 says, and the chain's cursor moves at all times.
EdgeBehaviour ==
  /\ (last.op = "step" /\ last.vm # Done) =>
       /\ TapeValue(cells, last.head) = last.arg.set
       /\ HeadAfter(last.arg.movement, last.head) \in HeadMin..HeadMax =>
            /\ pc = "edge"
            /\ heads[1] = HeadAfter(last.arg.movement, last.head)
       /\ HeadAfter(last.arg.movement, last.head) < HeadMin =>
            \/ pc = "panicked" /\ heads[1] = last.head
            \/ pc = "edge" /\ heads[1] = HeadMax
       /\ HeadAfter(last.arg.movement, last.head) > HeadMax =>
            \/ pc = "panicked" /\ heads[1] = last.head
            \/ pc = "edge" /\ heads[1] = HeadMin
  /\ (last.op = "step" /\ last.machine # Done) =>
       cursors[1] = CellAt(arena, last.cell, HeadAfter(last.arg.movement, 0))
  /\ last.op = "set" => TapeValue(cells, heads[1]) = last.arg
  /\ last.op = "lookup" => ret.tape = TapeValue(cells, heads[1])

\* a Left step at the smallest position has panicked after writing
EdgePanicWitness ==
  /\ pc = "panicked"
  /\ last.head = HeadMin
  /\ last.arg.movement = "Left"
  /\ last.arg.set = Some("a")
  /\ TapeValue(cells, HeadMin) = Some("a")
  /\ cursors[1] # last.cell

\* a Right step at the largest position has landed on the smallest
EdgeWrapWitness ==
  /\ pc = "edge"
  /\ last.op = "step"
  /\ last.vm # Done
  /\ last.head = HeadMax
  /\ last.arg.movement = "Right"
  /\ heads[1] = HeadMin

\* positions of the map tape within and around the reach of the steps
StepPositions == (0 - MaxStepCells - 1)..(MaxStepCells + 1)

\* C20: Frame of a step.  A step from a Running machine changes the value of
\* no position but the one under the head before the move: every other
\* position of the map and every other cell of the chain keeps its value,
\* the one the head arrives on after Left or Right included, a cell
\* materialized by the move is blank, and a Stay step leaves the head on the
\* written cell and materializes nothing.
StepFrame ==
  [][last'.op = "step" =>
       /\ vm # Done =>
            /\ \A p \in StepPositions \ {heads[1]} :
                 TapeValue(cells', p) = TapeValue(cells, p)
            /\ last'.arg.movement # "Stay" =>
                 TapeValue(cells', heads'[1]) = TapeValue(cells, heads'[1])
            /\ last'.arg.movement = "Stay" =>
                 /\ heads' = heads
                 /\ TapeValue(cells', heads'[1]) = last'.arg.set
       /\ machine # Done =>
            /\ \A k \in (1..Len(arena)) \ {cursors[1]} :
                 arena'[k].value = arena[k].value
            /\ \A k \in (Len(arena) + 1)..Len(arena') : arena'[k].value = None
            /\ last'.arg.movement # "Stay" =>
                 /\ cursors'[1] # cursors[1]
                 /\ CursorLookup(arena', cursors'[1]) =
                      ValueAt(arena, cursors[1], HeadAfter(last'.arg.movement, 0))
            /\ last'.arg.movement = "Stay" =>
                 /\ cursors' = cursors
                 /\ Len(arena') = Len(arena)
                 /\ CursorLookup(arena', cursors'[1]) = last'.arg.set]_vars

\* a Running machine has cleared the cell it stood on and moved Right onto a
\* cell holding b, with a further cell holding a on the other side
StepFrameWitness ==
  /\ last.op = "step"
  /\ last.vm # Done /\ last.machine # Done
  /\ last.arg.set = None
  /\ last.arg.movement = "Right"
  /\ last.head \in writtenPos
  /\ CursorLookup(arena, cursors[1]) = Some("b")
  /\ TapeValue(cells, heads[1]) = Some("b")
  /\ TapeValue(cells, last.head - 1) = Some("a")
  /\ ValueAt(arena, last.cell, 0 - 1) = Some("a")

=============================================================================
